---- MODULE Spec2Model ----
(***************************************************************************)
(* Setoran Harian API: the calculation engine (calculate_setoran), the     *)
(* request validation of the pydantic schemas, and the CRUD handlers of    *)
(* api/routes/setoran.py over the setoran_harian table.                    *)
(*                                                                         *)
(* Numbers are integers (meter units, rupiah).  Strings are sequences of   *)
(* one-character strings, so that len(), strip() and the HH:MM pattern are *)
(* computed and not assumed.  A Text column holding a line-item list is a  *)
(* sequence of JSON tokens, so that json.dumps / json.loads are a real     *)
(* encoding and a real parser.                                             *)
(***************************************************************************)
EXTENDS Integers, Sequences, FiniteSets, TLC

VARIABLES
    db,      \* table setoran_harian: id -> row
    phase,   \* "idle" | "pending" | "done": position of the request in flight
    req,     \* the request in flight
    resp,    \* the response of the handler that ran (status, body)
    pre,     \* history: the table as it was when the handler started
    task,    \* concurrent PUT requests: task -> its position and session state
    loop     \* the task that holds the event loop (0: none)

vars == <<db, phase, req, resp, pre, task, loop>>

(***************************************************************************)
(* Bounds of the model.                                                    *)
(***************************************************************************)
MaxId == 1          \* ids handed out by the table: 1..MaxId
MaxPairId == 2      \* the same, in the two-record specification
MaxMeter == 1       \* meter readings range over -1..MaxMeter
MaxItems == 1       \* line items per list in a request
MaxCalcItems == 2   \* line items per list handed to calculate_setoran directly
MaxPatchKeys == 2   \* fields set by one PUT body

(***************************************************************************)
(* Program constants.                                                      *)
(***************************************************************************)
UnitPrice == 11500
DefaultSkip == 0
DefaultLimit == 100
HTTP_200 == 200
HTTP_201 == 201
HTTP_204 == 204
HTTP_400 == 400
HTTP_404 == 404
HTTP_422 == 422
HTTP_500 == 500

(***************************************************************************)
(* Strings.                                                                *)
(***************************************************************************)
S_empty == << >>
S_blank == << " " >>
S_ani == << "a", "n", "i" >>
S_oil == << "o", "i", "l" >>
S_0800 == << "0", "8", ":", "0", "0" >>
S_730 == << "7", ":", "3", "0" >>
S_2400 == << "2", "4", ":", "0", "0" >>

RECURSIVE lstrip(_)
lstrip(s) ==
    IF s # << >> /\ Head(s) = " " THEN lstrip(Tail(s)) ELSE s

RECURSIVE rstrip(_)
rstrip(s) ==
    IF s # << >> /\ s[Len(s)] = " " THEN rstrip(SubSeq(s, 1, Len(s) - 1)) ELSE s

\* str.strip()
strip(s) == rstrip(lstrip(s))

\* truthiness of a str
Truthy(s) == s # << >>

Digit09 == {"0", "1", "2", "3", "4", "5", "6", "7", "8", "9"}
Digit05 == {"0", "1", "2", "3", "4", "5"}
Digit03 == {"0", "1", "2", "3"}

\* pattern ^([01]?[0-9]|2[0-3]):[0-5][0-9]$
MatchesHHMM(s) ==
    \/ /\ Len(s) = 4
       /\ s[1] \in Digit09
       /\ s[2] = ":"
       /\ s[3] \in Digit05
       /\ s[4] \in Digit09
    \/ /\ Len(s) = 5
       /\ \/ s[1] \in {"0", "1"} /\ s[2] \in Digit09
          \/ s[1] = "2" /\ s[2] \in Digit03
       /\ s[3] = ":"
       /\ s[4] \in Digit05
       /\ s[5] \in Digit09

\* faulty variant: the computed value is taken without the floor at 0
MaxUnclamped(a, b) == b

Max(a, b) == IF a >= b THEN a ELSE b

(***************************************************************************)
(* Optional values: a keyword argument or a body field is unset, null      *)
(* (None) or a value.                                                      *)
(***************************************************************************)
Val(x) == [k |-> "val", v |-> x]
Null(d) == [k |-> "null", v |-> d]
Unset(d) == [k |-> "unset", v |-> d]

(***************************************************************************)
(* Line items and their JSON text.                                         *)
(***************************************************************************)
Item(i, d, a) == [id |-> i, description |-> d, amount |-> a]
NoItem == Item("", S_empty, 0)

\* ExpenseItem / IncomeItem: min_length=1 on description, ge=0 on amount
ItemFieldsOk(item) ==
    /\ Len(item.description) >= 1
    /\ item.amount >= 0

Tok(t, item) == [t |-> t, item |-> item]
LBracket == Tok("[", NoItem)
RBracket == Tok("]", NoItem)
Comma == Tok(",", NoItem)

RECURSIVE dumps_items(_)
dumps_items(items) ==
    IF items = << >> THEN << >>
    ELSE IF Len(items) = 1 THEN << Tok("obj", items[1]) >>
    ELSE << Tok("obj", items[1]), Comma >> \o dumps_items(Tail(items))

\* json.dumps([item.dict() for item in items])
json_dumps(items) == << LBracket >> \o dumps_items(items) \o << RBracket >>

\* the text between the brackets is obj (, obj)*
RECURSIVE loads_items(_)
loads_items(toks) ==
    IF toks = << >> THEN [ok |-> FALSE, v |-> << >>]
    ELSE IF toks[1].t # "obj" THEN [ok |-> FALSE, v |-> << >>]
    ELSE IF Len(toks) = 1 THEN [ok |-> TRUE, v |-> << toks[1].item >>]
    ELSE IF toks[2].t # "," THEN [ok |-> FALSE, v |-> << >>]
    ELSE LET rest == loads_items(SubSeq(toks, 3, Len(toks)))
         IN  [ok |-> rest.ok,
              v |-> IF rest.ok THEN << toks[1].item >> \o rest.v ELSE << >>]

\* json.loads(text): ok = FALSE stands for JSONDecodeError
json_loads(text) ==
    IF Len(text) < 2 \/ text[1] # LBracket \/ text[Len(text)] # RBracket
    THEN [ok |-> FALSE, v |-> << >>]
    ELSE IF Len(text) = 2 THEN [ok |-> TRUE, v |-> << >>]
    ELSE loads_items(SubSeq(text, 2, Len(text) - 1))

(***************************************************************************)
(* calculate_setoran.                                                      *)
(***************************************************************************)
\* faulty variant: the description is tested without strip()
CountedWithoutStrip(item) == Truthy(item.description) /\ item.amount > 0

\* item.description.strip() and item.amount > 0
Counted(item) == Truthy(strip(item.description)) /\ item.amount > 0

RECURSIVE SumCounted(_)
SumCounted(items) ==
    IF items = << >> THEN 0
    ELSE (IF Counted(Head(items)) THEN Head(items).amount ELSE 0)
         + SumCounted(Tail(items))

calculate_setoran(data) ==
    LET total_liter == Max(0, data.nomor_akhir - data.nomor_awal)
        total_setoran == total_liter * UnitPrice
        cash_setoran == Max(0, total_setoran - data.qris_setoran)
        total_expenses == SumCounted(data.expenses)
        total_income == SumCounted(data.income)
        total_keseluruhan == cash_setoran + total_income - total_expenses
    IN  [total_liter |-> total_liter,
         total_setoran |-> total_setoran,
         cash_setoran |-> cash_setoran,
         total_expenses |-> total_expenses,
         total_income |-> total_income,
         total_keseluruhan |-> total_keseluruhan]

(***************************************************************************)
(* Schemas (api/schemas/setoran.py).  A body or a keyword-argument set is  *)
(* a record of optional values over the eight fields.                      *)
(***************************************************************************)
DisplayKeys == {"employee_name", "jam_masuk", "jam_keluar"}
ScalarKeys == DisplayKeys \cup {"nomor_awal", "nomor_akhir", "qris_setoran"}
ListKeys == {"expenses", "income"}
AllKeys == ScalarKeys \cup ListKeys

\* faulty variant: the description is tested without strip()
validate_items_unstripped(v) ==
    \A i \in 1..Len(v) :
        /\ Truthy(v[i].description)
        /\ ~(v[i].amount < 0)

\* validate_expenses / validate_income
validate_items(v) ==
    \A i \in 1..Len(v) :
        /\ Truthy(strip(v[i].description))
        /\ ~(v[i].amount < 0)

\* List[ExpenseItem] with the validator of the field
ItemListOk(o) ==
    \/ o.k = "unset"
    \/ /\ o.k = "val"
       /\ \A i \in 1..Len(o.v) : ItemFieldsOk(o.v[i])
       /\ validate_items(o.v)

\* faulty variant: the validator of nomor_akhir is missing
validate_nomor_akhir_missing(kw) == TRUE

\* validate_nomor_akhir: 'nomor_awal' is in values only when it validated
validate_nomor_akhir(kw) ==
    (kw.nomor_awal.k = "val" /\ kw.nomor_awal.v >= 0)
        => ~(kw.nomor_akhir.v < kw.nomor_awal.v)

\* SetoranCreate(**kw) constructs (no ValidationError)
SetoranCreateValid(kw) ==
    /\ kw.employee_name.k = "val" /\ Len(kw.employee_name.v) >= 1
    /\ kw.jam_masuk.k = "val" /\ MatchesHHMM(kw.jam_masuk.v)
    /\ kw.jam_keluar.k = "val" /\ MatchesHHMM(kw.jam_keluar.v)
    /\ kw.nomor_awal.k = "val" /\ kw.nomor_awal.v >= 0
    /\ kw.nomor_akhir.k = "val" /\ kw.nomor_akhir.v >= 0
    /\ validate_nomor_akhir(kw)
    /\ kw.qris_setoran.k = "unset"
          \/ (kw.qris_setoran.k = "val" /\ kw.qris_setoran.v >= 0)
    /\ ItemListOk(kw.expenses)
    /\ ItemListOk(kw.income)

\* the SetoranCreate object: unset fields take their defaults (0, [])
SetoranCreate(kw) ==
    [employee_name |-> kw.employee_name.v,
     jam_masuk |-> kw.jam_masuk.v,
     jam_keluar |-> kw.jam_keluar.v,
     nomor_awal |-> kw.nomor_awal.v,
     nomor_akhir |-> kw.nomor_akhir.v,
     qris_setoran |-> IF kw.qris_setoran.k = "val" THEN kw.qris_setoran.v ELSE 0,
     expenses |-> IF kw.expenses.k = "val" THEN kw.expenses.v ELSE << >>,
     income |-> IF kw.income.k = "val" THEN kw.income.v ELSE << >>]

\* SetoranUpdate parses the PUT body: every field Optional, no constraint
\* but the item types of the two lists
SetoranUpdateValid(patch) ==
    \A f \in ListKeys :
        patch[f].k = "val" => \A i \in 1..Len(patch[f].v) : ItemFieldsOk(patch[f].v[i])

\* setoran_update.dict(exclude_unset=True): the keys of update_data
ExcludeUnset(patch) == {f \in AllKeys : patch[f].k # "unset"}

(***************************************************************************)
(* The table (api/models/setoran.py).  A row is a record of its columns;   *)
(* the two Text columns hold JSON text, << >> standing for NULL and ''.    *)
(* created_at / updated_at are left out: no handler reads them.            *)
(***************************************************************************)
DerivedKeys == {"total_liter", "total_setoran", "cash_setoran",
                "total_expenses", "total_income", "total_keseluruhan"}
BlobKeys == {"expenses_data", "income_data"}
Columns == ScalarKeys \cup DerivedKeys \cup BlobKeys

\* json.loads(row.expenses_data) if row.expenses_data else []
LoadBlob(text) ==
    IF Truthy(text) THEN json_loads(text) ELSE [ok |-> TRUE, v |-> << >>]

\* INTEGER PRIMARY KEY: the next rowid is the largest one plus 1
NextId(d) ==
    IF DOMAIN d = {} THEN 1
    ELSE (CHOOSE i \in DOMAIN d : \A j \in DOMAIN d : j <= i) + 1

\* faulty variant: the query has no filter on the id
LookupUnfiltered(d, id) == DOMAIN d

\* db.query(Setoran).filter(Setoran.id == setoran_id): the ids of the rows found
Lookup(d, id) == {i \in DOMAIN d : i = id}

\* .first(), in rowid order
First(found) == CHOOSE i \in found : \A j \in found : i <= j

Insert(d, id, row) == [i \in DOMAIN d \cup {id} |-> IF i = id THEN row ELSE d[i]]
Remove(d, id) == [i \in DOMAIN d \ {id} |-> d[i]]

\* the Setoran(...) object create_setoran builds
NewRow(data, calculation) ==
    [employee_name |-> data.employee_name,
     jam_masuk |-> data.jam_masuk,
     jam_keluar |-> data.jam_keluar,
     nomor_awal |-> data.nomor_awal,
     nomor_akhir |-> data.nomor_akhir,
     total_liter |-> calculation.total_liter,
     total_setoran |-> calculation.total_setoran,
     qris_setoran |-> data.qris_setoran,
     cash_setoran |-> calculation.cash_setoran,
     expenses_data |-> IF data.expenses # << >> THEN json_dumps(data.expenses)
                       ELSE << LBracket, RBracket >>,
     total_expenses |-> calculation.total_expenses,
     income_data |-> IF data.income # << >> THEN json_dumps(data.income)
                     ELSE << LBracket, RBracket >>,
     total_income |-> calculation.total_income,
     total_keseluruhan |-> calculation.total_keseluruhan]

\* SetoranResponse of a row whose lists were parsed and set as attributes
View(id, row, expenses, income) ==
    [id |-> id,
     employee_name |-> row.employee_name,
     jam_masuk |-> row.jam_masuk,
     jam_keluar |-> row.jam_keluar,
     nomor_awal |-> row.nomor_awal,
     nomor_akhir |-> row.nomor_akhir,
     total_liter |-> row.total_liter,
     total_setoran |-> row.total_setoran,
     qris_setoran |-> row.qris_setoran,
     cash_setoran |-> row.cash_setoran,
     expenses |-> expenses,
     income |-> income,
     total_expenses |-> row.total_expenses,
     total_income |-> row.total_income,
     total_keseluruhan |-> row.total_keseluruhan]

Response(status, body) == [status |-> status, body |-> body]
Detail(text) == [detail |-> text]
NoResponse == Response(0, Detail(""))

(***************************************************************************)
(* update_setoran, from the loaded row to the commit.                      *)
(***************************************************************************)
\* faulty variant: qris_setoran is missing from the list of line 148
FinancialKeysWithoutQris == {"nomor_awal", "nomor_akhir", "expenses", "income"}

\* the keys whose presence in update_data triggers the recomputation
FinancialKeys == {"nomor_awal", "nomor_akhir", "qris_setoran", "expenses", "income"}

NeedsRecompute(update_keys) == update_keys \cap FinancialKeys # {}

\* update_data.get(field, stored)
GetOr(patch, f, stored) == IF patch[f].k = "unset" THEN Val(stored) ELSE patch[f]

\* the keyword arguments of SetoranCreate(...) in update_setoran
MergedKwargs(row, patch) ==
    [employee_name |-> GetOr(patch, "employee_name", row.employee_name),
     jam_masuk |-> GetOr(patch, "jam_masuk", row.jam_masuk),
     jam_keluar |-> GetOr(patch, "jam_keluar", row.jam_keluar),
     nomor_awal |-> GetOr(patch, "nomor_awal", row.nomor_awal),
     nomor_akhir |-> GetOr(patch, "nomor_akhir", row.nomor_akhir),
     qris_setoran |-> GetOr(patch, "qris_setoran", row.qris_setoran),
     expenses |-> GetOr(patch, "expenses", LoadBlob(row.expenses_data).v),
     income |-> GetOr(patch, "income", LoadBlob(row.income_data).v)]

\* the default of .get() is evaluated whether or not the key is present:
\* both stored texts are parsed before SetoranCreate is called
MergeRaises(row, patch) ==
    \/ ~LoadBlob(row.expenses_data).ok
    \/ ~LoadBlob(row.income_data).ok
    \/ ~SetoranCreateValid(MergedKwargs(row, patch))

\* faulty variant: the setattr of total_keseluruhan is missing
RecomputedButNetTotal(row, patch) ==
    LET current_data == SetoranCreate(MergedKwargs(row, patch))
        calculation == calculate_setoran(current_data)
    IN  [row EXCEPT
            !.total_liter = calculation.total_liter,
            !.total_setoran = calculation.total_setoran,
            !.cash_setoran = calculation.cash_setoran,
            !.total_expenses = calculation.total_expenses,
            !.total_income = calculation.total_income,
            !.expenses_data = IF patch.expenses.k # "unset"
                              THEN json_dumps(current_data.expenses) ELSE @,
            !.income_data = IF patch.income.k # "unset"
                            THEN json_dumps(current_data.income) ELSE @]

\* the six setattr of the calculated fields and the two of the JSON fields
Recomputed(row, patch) ==
    LET current_data == SetoranCreate(MergedKwargs(row, patch))
        calculation == calculate_setoran(current_data)
    IN  [row EXCEPT
            !.total_liter = calculation.total_liter,
            !.total_setoran = calculation.total_setoran,
            !.cash_setoran = calculation.cash_setoran,
            !.total_expenses = calculation.total_expenses,
            !.total_income = calculation.total_income,
            !.total_keseluruhan = calculation.total_keseluruhan,
            !.expenses_data = IF patch.expenses.k # "unset"
                              THEN json_dumps(current_data.expenses) ELSE @,
            !.income_data = IF patch.income.k # "unset"
                            THEN json_dumps(current_data.income) ELSE @]

\* "Update other fields": every key of update_data but expenses / income
OtherFields(row, patch) ==
    [row EXCEPT
        !.employee_name = IF patch.employee_name.k # "unset" THEN patch.employee_name.v ELSE @,
        !.jam_masuk = IF patch.jam_masuk.k # "unset" THEN patch.jam_masuk.v ELSE @,
        !.jam_keluar = IF patch.jam_keluar.k # "unset" THEN patch.jam_keluar.v ELSE @,
        !.nomor_awal = IF patch.nomor_awal.k # "unset" THEN patch.nomor_awal.v ELSE @,
        !.nomor_akhir = IF patch.nomor_akhir.k # "unset" THEN patch.nomor_akhir.v ELSE @,
        !.qris_setoran = IF patch.qris_setoran.k # "unset" THEN patch.qris_setoran.v ELSE @]

\* a None assigned to a nullable=False column: the flush raises IntegrityError
NotNullViolated(patch) == \E f \in ScalarKeys : patch[f].k = "null"

\* the UPDATE a flush emits sets the columns whose value changed since the load
Flush(stored, loaded, new) ==
    LET P(c) == IF new[c] # loaded[c] THEN new[c] ELSE stored[c]
    IN  [employee_name |-> P("employee_name"),
         jam_masuk |-> P("jam_masuk"),
         jam_keluar |-> P("jam_keluar"),
         nomor_awal |-> P("nomor_awal"),
         nomor_akhir |-> P("nomor_akhir"),
         total_liter |-> P("total_liter"),
         total_setoran |-> P("total_setoran"),
         qris_setoran |-> P("qris_setoran"),
         cash_setoran |-> P("cash_setoran"),
         expenses_data |-> P("expenses_data"),
         total_expenses |-> P("total_expenses"),
         income_data |-> P("income_data"),
         total_income |-> P("total_income"),
         total_keseluruhan |-> P("total_keseluruhan")]

\* json.loads(row.expenses_data or '[]')
LoadBlobOrEmpty(text) ==
    IF Truthy(text) THEN json_loads(text) ELSE json_loads(<< LBracket, RBracket >>)

\* the try block of update_setoran on the row `loaded` by the query, run
\* against the table d: the table after it and the response
UpdateTry(d, id, loaded, patch) ==
    LET recompute == NeedsRecompute(ExcludeUnset(patch))
        raised == \/ recompute /\ MergeRaises(loaded, patch)
                  \/ NotNullViolated(patch)
                  \/ id \notin DOMAIN d
        row1 == IF recompute THEN Recomputed(loaded, patch) ELSE loaded
        row2 == OtherFields(row1, patch)
        d2 == [d EXCEPT ![id] = Flush(d[id], loaded, row2)]
        expenses == LoadBlobOrEmpty(d2[id].expenses_data)
        income == LoadBlobOrEmpty(d2[id].income_data)
    IN  IF raised
        THEN [db |-> d, resp |-> Response(HTTP_400, Detail("Error updating setoran"))]
        ELSE IF ~expenses.ok \/ ~income.ok
        THEN [db |-> d2, resp |-> Response(HTTP_400, Detail("Error updating setoran"))]
        ELSE [db |-> d2, resp |-> Response(HTTP_200, View(id, d2[id], expenses.v, income.v))]

(***************************************************************************)
(* The handlers as functions of the table and the request: the table after *)
(* the call and the response.  FastAPI parses the body into the declared   *)
(* schema first and answers 422 without calling the handler.               *)
(***************************************************************************)
EmptyTable == << >>

create_result(d, body) ==
    IF ~SetoranCreateValid(body)
    THEN [db |-> d, resp |-> Response(HTTP_422, Detail("validation"))]
    ELSE LET setoran_data == SetoranCreate(body)
             calculation == calculate_setoran(setoran_data)
             db_setoran == NewRow(setoran_data, calculation)
             id == NextId(d)
             expenses == LoadBlob(db_setoran.expenses_data)
             income == LoadBlob(db_setoran.income_data)
         IN  IF ~expenses.ok \/ ~income.ok
             THEN [db |-> Insert(d, id, db_setoran),
                   resp |-> Response(HTTP_400, Detail("Error creating setoran"))]
             ELSE [db |-> Insert(d, id, db_setoran),
                   resp |-> Response(HTTP_201, View(id, db_setoran, expenses.v, income.v))]

\* .offset(skip).limit(limit).all(), in rowid order
RECURSIVE RowIds(_, _)
RowIds(d, from) ==
    IF \A i \in DOMAIN d : i < from THEN << >>
    ELSE LET i == CHOOSE i \in DOMAIN d : i >= from /\ \A j \in DOMAIN d : j >= from => i <= j
         IN  << i >> \o RowIds(d, i + 1)

Page(ids, skip, limit) ==
    SubSeq(ids, skip + 1, IF Len(ids) < skip + limit THEN Len(ids) ELSE skip + limit)

get_all_result(d, skip, limit) ==
    LET ids == Page(RowIds(d, 1), skip, limit)
        raises == \E n \in 1..Len(ids) :
                      \/ ~LoadBlob(d[ids[n]].expenses_data).ok
                      \/ ~LoadBlob(d[ids[n]].income_data).ok
    IN  IF raises
        THEN [db |-> d, resp |-> Response(HTTP_500, Detail("Internal Server Error"))]
        ELSE [db |-> d,
              resp |-> Response(HTTP_200,
                          [n \in 1..Len(ids) |->
                              View(ids[n], d[ids[n]],
                                   LoadBlob(d[ids[n]].expenses_data).v,
                                   LoadBlob(d[ids[n]].income_data).v)])]

get_by_id_result(d, id) ==
    IF Lookup(d, id) = {}
    THEN [db |-> d, resp |-> Response(HTTP_404, Detail("Setoran tidak ditemukan"))]
    ELSE LET found == First(Lookup(d, id))
             expenses == LoadBlob(d[found].expenses_data)
             income == LoadBlob(d[found].income_data)
         IN  IF ~expenses.ok \/ ~income.ok
             THEN [db |-> d, resp |-> Response(HTTP_500, Detail("Internal Server Error"))]
             ELSE [db |-> d,
                   resp |-> Response(HTTP_200, View(found, d[found], expenses.v, income.v))]

update_result(d, id, patch) ==
    IF ~SetoranUpdateValid(patch)
    THEN [db |-> d, resp |-> Response(HTTP_422, Detail("validation"))]
    ELSE IF Lookup(d, id) = {}
    THEN [db |-> d, resp |-> Response(HTTP_404, Detail("Setoran tidak ditemukan"))]
    ELSE LET found == First(Lookup(d, id))
         IN  UpdateTry(d, found, d[found], patch)

delete_result(d, id) ==
    IF Lookup(d, id) = {}
    THEN [db |-> d, resp |-> Response(HTTP_404, Detail("Setoran tidak ditemukan"))]
    ELSE [db |-> Remove(d, First(Lookup(d, id))), resp |-> Response(HTTP_204, Detail(""))]

\* faulty variant: the preview saves the row as create_setoran does
preview_saves(d, body) ==
    IF ~SetoranCreateValid(body)
    THEN [db |-> d, resp |-> Response(HTTP_422, Detail("validation"))]
    ELSE [db |-> create_result(d, body).db,
          resp |-> Response(HTTP_200, calculate_setoran(SetoranCreate(body)))]

preview_result(d, body) ==
    IF ~SetoranCreateValid(body)
    THEN [db |-> d, resp |-> Response(HTTP_422, Detail("validation"))]
    ELSE [db |-> d, resp |-> Response(HTTP_200, calculate_setoran(SetoranCreate(body)))]

(***************************************************************************)
(* Requests a client can send.                                             *)
(***************************************************************************)
CreateReq(body) == [op |-> "create", body |-> body]
PreviewReq(body) == [op |-> "preview", body |-> body]
UpdateReq(id, patch) == [op |-> "update", id |-> id, patch |-> patch]
GetReq(id) == [op |-> "get", id |-> id]
DeleteReq(id) == [op |-> "delete", id |-> id]
ListReq(skip, limit) == [op |-> "list", skip |-> skip, limit |-> limit]
NoRequest == [op |-> "none"]

\* The values a client draws its requests from.  Wide: every field takes
\* valid and invalid values, one row.  Narrow: few values, two rows.
Descriptions == {S_empty, S_blank, S_oil}
Amounts == {-1, 0, 5000}
Items == {Item("a", d, a) : d \in Descriptions, a \in Amounts}
ItemLists(n) == UNION {[1..k -> Items] : k \in 0..n}

Wide ==
    [names |-> {S_empty, S_ani},
     timesIn |-> {S_0800, S_2400},
     timesOut |-> {S_730, S_2400},
     meters |-> -1..MaxMeter,
     qris |-> {-1, 0, 4000},
     expenses |-> ItemLists(MaxItems),
     income |-> ItemLists(MaxItems),
     previewIncome |-> {<< >>, << Item("a", S_oil, 5000) >>},
     ids |-> 1..MaxId]

Narrow ==
    [names |-> {S_empty, S_ani},
     timesIn |-> {S_0800},
     timesOut |-> {S_730},
     meters |-> 0..MaxMeter,
     qris |-> {0, 4000},
     expenses |-> {<< >>, << Item("a", S_oil, 5000) >>, << Item("a", S_blank, 5000) >>},
     income |-> {<< >>},
     previewIncome |-> {<< >>},
     ids |-> 1..MaxPairId]

Body(n, m, k, a, b, q, e, i) ==
    [employee_name |-> Val(n), jam_masuk |-> Val(m), jam_keluar |-> Val(k),
     nomor_awal |-> Val(a), nomor_akhir |-> Val(b), qris_setoran |-> Val(q),
     expenses |-> Val(e), income |-> Val(i)]

Bodies(D) ==
    {Body(n, m, k, a, b, q, e, i) :
        n \in D.names, m \in D.timesIn, k \in D.timesOut, a \in D.meters,
        b \in D.meters, q \in D.qris, e \in D.expenses, i \in D.income}

PreviewBodies(D) ==
    {Body(n, S_0800, S_730, a, b, q, e, i) :
        n \in D.names, a \in D.meters, b \in D.meters, q \in D.qris,
        e \in D.expenses, i \in D.previewIncome}

EmptyPatch ==
    [employee_name |-> Unset(S_empty), jam_masuk |-> Unset(S_empty),
     jam_keluar |-> Unset(S_empty), nomor_awal |-> Unset(0),
     nomor_akhir |-> Unset(0), qris_setoran |-> Unset(0),
     expenses |-> Unset(<< >>), income |-> Unset(<< >>)]

\* what a PUT body can give a field: null or a value
Options(D, f) ==
    CASE f = "employee_name" -> {Null(S_empty)} \cup {Val(x) : x \in D.names}
      [] f = "jam_masuk" -> {Null(S_empty)} \cup {Val(x) : x \in D.timesIn}
      [] f = "jam_keluar" -> {Null(S_empty)} \cup {Val(x) : x \in D.timesOut}
      [] f = "nomor_awal" -> {Null(0)} \cup {Val(x) : x \in D.meters}
      [] f = "nomor_akhir" -> {Null(0)} \cup {Val(x) : x \in D.meters}
      [] f = "qris_setoran" -> {Null(0)} \cup {Val(x) : x \in D.qris}
      [] f = "expenses" -> {Null(<< >>)} \cup {Val(x) : x \in D.expenses}
      [] f = "income" -> {Null(<< >>)} \cup {Val(x) : x \in D.income}

\* the PUT bodies that set at most n fields
RECURSIVE PatchesUpTo(_, _)
PatchesUpTo(D, n) ==
    IF n = 0 THEN {EmptyPatch}
    ELSE LET smaller == PatchesUpTo(D, n - 1)
         IN  smaller \cup
             UNION {UNION {{[p EXCEPT ![f] = o] : o \in Options(D, f)} :
                           f \in {g \in AllKeys : p[g].k = "unset"}} :
                    p \in smaller}

WideBodies == Bodies(Wide)
WidePreviews == PreviewBodies(Wide)
WidePatches == PatchesUpTo(Wide, MaxPatchKeys)
NarrowBodies == Bodies(Narrow)
NarrowPreviews == PreviewBodies(Narrow)
NarrowPatches == PatchesUpTo(Narrow, MaxPatchKeys)

(***************************************************************************)
(* The service: one request at a time is sent, handled and answered.       *)
(***************************************************************************)
NoTasks == << >>

Init ==
    /\ db = EmptyTable
    /\ phase = "idle"
    /\ req = NoRequest
    /\ resp = NoResponse
    /\ pre = EmptyTable
    /\ task = NoTasks
    /\ loop = 0

\* a client sends a request; a create is sent while the table has an id left
Send(ids, bodies, previews, patches) ==
    /\ phase = "idle"
    /\ \/ \E b \in bodies : NextId(db) \in ids /\ req' = CreateReq(b)
       \/ \E b \in previews : req' = PreviewReq(b)
       \/ \E id \in ids, p \in patches : req' = UpdateReq(id, p)
       \/ \E id \in ids : req' = GetReq(id)
       \/ \E id \in ids : req' = DeleteReq(id)
       \/ \E skip \in {DefaultSkip, 1} : req' = ListReq(skip, DefaultLimit)
    /\ phase' = "pending"
    /\ UNCHANGED <<db, resp, pre, task, loop>>

Handle(result) ==
    /\ db' = result.db
    /\ resp' = result.resp
    /\ pre' = db
    /\ phase' = "done"
    /\ UNCHANGED <<req, task, loop>>

create_setoran ==
    /\ phase = "pending" /\ req.op = "create"
    /\ Handle(create_result(db, req.body))

get_all_setoran ==
    /\ phase = "pending" /\ req.op = "list"
    /\ Handle(get_all_result(db, req.skip, req.limit))

get_setoran_by_id ==
    /\ phase = "pending" /\ req.op = "get"
    /\ Handle(get_by_id_result(db, req.id))

update_setoran ==
    /\ phase = "pending" /\ req.op = "update"
    /\ Handle(update_result(db, req.id, req.patch))

delete_setoran ==
    /\ phase = "pending" /\ req.op = "delete"
    /\ Handle(delete_result(db, req.id))

preview_calculation ==
    /\ phase = "pending" /\ req.op = "preview"
    /\ Handle(preview_result(db, req.body))

Return ==
    /\ phase = "done"
    /\ phase' = "idle"
    /\ req' = NoRequest
    /\ resp' = NoResponse
    /\ pre' = EmptyTable
    /\ UNCHANGED <<db, task, loop>>

Handlers ==
    \/ create_setoran
    \/ get_all_setoran
    \/ get_setoran_by_id
    \/ update_setoran
    \/ delete_setoran
    \/ preview_calculation

Next == Send(Wide.ids, WideBodies, WidePreviews, WidePatches) \/ Handlers \/ Return

Spec == Init /\ [][Next]_vars

NextPair == Send(Narrow.ids, NarrowBodies, NarrowPreviews, NarrowPatches) \/ Handlers \/ Return

SpecPair == Init /\ [][NextPair]_vars

(***************************************************************************)
(* The service started on a database file that already holds a row: the    *)
(* table is created only when it is missing, and the two Text columns are  *)
(* nullable and unconstrained, so a row written by another program can     *)
(* hold NULL, '' or text that is not JSON.                                 *)
(***************************************************************************)
TruncatedText == << LBracket, Tok("obj", Item("a", S_oil, 5000)) >>
LegacyTexts == {<< >>, << LBracket, RBracket >>, TruncatedText}

LegacyBody == Body(S_ani, S_0800, S_730, 0, 1, 0, << >>, << >>)

LegacyRows ==
    {[NewRow(SetoranCreate(LegacyBody), calculate_setoran(SetoranCreate(LegacyBody)))
        EXCEPT !.expenses_data = e, !.income_data = i] :
        e \in LegacyTexts, i \in LegacyTexts}

InitLegacy ==
    /\ db \in {Insert(EmptyTable, 1, row) : row \in LegacyRows}
    /\ phase = "idle"
    /\ req = NoRequest
    /\ resp = NoResponse
    /\ pre = EmptyTable
    /\ task = NoTasks
    /\ loop = 0

SpecLegacy == InitLegacy /\ [][NextPair]_vars

(***************************************************************************)
(* calculate_setoran called on any data object.                            *)
(***************************************************************************)
CalcAmounts == {-1, 0, 5000, 7000}
CalcItems == {Item("a", d, a) : d \in Descriptions, a \in CalcAmounts}
CalcLists(n) == UNION {[1..k -> CalcItems] : k \in 0..n}
CalcQris == {0, UnitPrice, 20000}

CalcData(a, b, q, e, i) ==
    [nomor_awal |-> a, nomor_akhir |-> b, qris_setoran |-> q, expenses |-> e, income |-> i]

CalcReq(data) == [op |-> "calculate", data |-> data]

InitCalc ==
    /\ db = EmptyTable
    /\ phase = "pending"
    /\ \E a \in -1..MaxMeter, b \in -1..MaxMeter, q \in CalcQris,
          e \in CalcLists(MaxCalcItems), i \in CalcLists(1) :
            req = CalcReq(CalcData(a, b, q, e, i))
    /\ resp = NoResponse
    /\ pre = EmptyTable
    /\ task = NoTasks
    /\ loop = 0

Calculate ==
    /\ phase = "pending" /\ req.op = "calculate"
    /\ resp' = Response(HTTP_200, calculate_setoran(req.data))
    /\ phase' = "done"
    /\ UNCHANGED <<db, req, pre, task, loop>>

NextCalc == Calculate

SpecCalc == InitCalc /\ [][NextCalc]_vars

(***************************************************************************)
(* Two PUT requests for row 1 in flight at once.  The handlers are         *)
(* coroutines run by one event loop (uvicorn.run without workers): a       *)
(* coroutine keeps the loop until it awaits or returns.  Each request has  *)
(* its own session: the row it loaded, and at commit an UPDATE of the      *)
(* columns it changed.                                                     *)
(***************************************************************************)
Tasks == {1, 2}

\* faulty variant: the handler awaits the database between its query and its commit
HandlerAwaitsCommit == TRUE

\* whether update_setoran awaits between its query and its commit
HandlerAwaits == FALSE

ConcBodies ==
    {b \in WideBodies : SetoranCreateValid(b) /\ b.income.v = << >> /\ b.jam_keluar.v = S_730}

ConcRows == {create_result(EmptyTable, b).db[1] : b \in ConcBodies}

ConcPatches == {p \in PatchesUpTo(Wide, 1) : SetoranUpdateValid(p) /\ p.income.k = "unset"}

NoRow == NewRow(SetoranCreate(EmptyPatch), calculate_setoran(SetoranCreate(EmptyPatch)))

NewTask(patch) == [pc |-> "start", patch |-> patch, loaded |-> NoRow, status |-> 0]

InitConc ==
    /\ db \in {Insert(EmptyTable, 1, row) : row \in ConcRows}
    /\ pre = db
    /\ task \in {[t \in Tasks |-> NewTask(IF t = 1 THEN p1 ELSE p2)] :
                    p1 \in ConcPatches, p2 \in ConcPatches}
    /\ loop = 0
    /\ phase = "idle"
    /\ req = NoRequest
    /\ resp = NoResponse

\* the event loop starts the handler of task t: db.query(...).first()
TaskQuery(t) ==
    /\ task[t].pc = "start"
    /\ loop = 0
    /\ IF Lookup(db, 1) = {}
       THEN /\ task' = [task EXCEPT ![t].pc = "done", ![t].status = HTTP_404]
            /\ loop' = 0
       ELSE /\ task' = [task EXCEPT ![t].pc = "loaded", ![t].loaded = db[First(Lookup(db, 1))]]
            /\ loop' = IF HandlerAwaits THEN 0 ELSE t
    /\ UNCHANGED <<db, phase, req, resp, pre>>

\* the try block of the handler of task t, to its return
TaskCommit(t) ==
    /\ task[t].pc = "loaded"
    /\ loop = t \/ (HandlerAwaits /\ loop = 0)
    /\ LET result == UpdateTry(db, 1, task[t].loaded, task[t].patch)
       IN  /\ db' = result.db
           /\ task' = [task EXCEPT ![t].pc = "done", ![t].status = result.resp.status]
    /\ loop' = 0
    /\ UNCHANGED <<phase, req, resp, pre>>

NextConc == \E t \in Tasks : TaskQuery(t) \/ TaskCommit(t)

SpecConc == InitConc /\ [][NextConc]_vars

(***************************************************************************)
(* Properties.  In a "done" state req is the call that was handled, pre    *)
(* the table before it, db the table after it and resp its response.       *)
(***************************************************************************)
StoredDerived(row) ==
    [total_liter |-> row.total_liter,
     total_setoran |-> row.total_setoran,
     cash_setoran |-> row.cash_setoran,
     total_expenses |-> row.total_expenses,
     total_income |-> row.total_income,
     total_keseluruhan |-> row.total_keseluruhan]

StoredInputs(row) ==
    CalcData(row.nomor_awal, row.nomor_akhir, row.qris_setoran,
             json_loads(row.expenses_data).v, json_loads(row.income_data).v)

Consistent(row) ==
    /\ json_loads(row.expenses_data).ok
    /\ json_loads(row.income_data).ok
    /\ StoredDerived(row) = calculate_setoran(StoredInputs(row))

Handled(op) == phase = "done" /\ req.op = op

ClaimFinancialKeys == {"nomor_awal", "nomor_akhir", "qris_setoran", "expenses", "income"}
PatchKeys(patch) == {f \in AllKeys : patch[f].k # "unset"}
TouchesFinancial(patch) == PatchKeys(patch) \cap ClaimFinancialKeys # {}

\* the patch value of a field if the patch holds one, else the stored value
Overlay(patch, f, stored) == IF patch[f].k = "unset" THEN stored ELSE patch[f].v

OverlaidInputs(row, patch) ==
    CalcData(Overlay(patch, "nomor_awal", row.nomor_awal),
             Overlay(patch, "nomor_akhir", row.nomor_akhir),
             Overlay(patch, "qris_setoran", row.qris_setoran),
             Overlay(patch, "expenses", json_loads(row.expenses_data).v),
             Overlay(patch, "income", json_loads(row.income_data).v))

\* C1: in every reachable state, every stored record's six derived fields
\* equal calculate_setoran of that record's own stored input fields.
C1_DerivedMatchStoredInputs == \A id \in DOMAIN db : Consistent(db[id])

C1_Witness ==
    /\ Handled("update")
    /\ resp.status = HTTP_200
    /\ db[req.id].cash_setoran # pre[req.id].cash_setoran
    /\ db[req.id].total_expenses > 0

\* C2: after an accepted update whose patch holds a financial field, the five
\* input fields of the record are the patch over the stored values, and all
\* six derived fields are calculate_setoran of that merged input.
C2_AcceptedPatchMergesAndRecomputes ==
    (Handled("update") /\ resp.status = HTTP_200 /\ TouchesFinancial(req.patch)) =>
        LET merged == OverlaidInputs(pre[req.id], req.patch)
            after == db[req.id]
        IN  /\ \A f \in PatchKeys(req.patch) : req.patch[f].k = "val"
            /\ json_loads(after.expenses_data).ok
            /\ json_loads(after.income_data).ok
            /\ StoredInputs(after) = merged
            /\ StoredDerived(after) = calculate_setoran(merged)

C2_Witness ==
    /\ Handled("update")
    /\ resp.status = HTTP_200
    /\ PatchKeys(req.patch) = {"nomor_akhir", "expenses"}
    /\ db[req.id].qris_setoran = pre[req.id].qris_setoran
    /\ db[req.id].qris_setoran > 0
    /\ \A f \in DerivedKeys \ {"total_income"} : db[req.id][f] # pre[req.id][f]

\* the columns C3 speaks of: the five inputs and the six derived fields
FinancialColumns ==
    {"nomor_awal", "nomor_akhir", "qris_setoran", "expenses_data", "income_data"}
        \cup DerivedKeys

\* C3: an update whose patch holds none of the five financial fields leaves
\* the derived fields and the financial inputs of the record as they were,
\* and leaves every other record unchanged.
C3_DisplayPatchKeepsFinancials ==
    (Handled("update") /\ ~TouchesFinancial(req.patch)) =>
        /\ DOMAIN db = DOMAIN pre
        /\ \A id \in DOMAIN pre :
            /\ \A c \in FinancialColumns : db[id][c] = pre[id][c]
            /\ id # req.id => db[id] = pre[id]

C3_Witness ==
    /\ Handled("update")
    /\ ~TouchesFinancial(req.patch)
    /\ resp.status = HTTP_200
    /\ DOMAIN pre = {1, 2}
    /\ db[req.id].employee_name # pre[req.id].employee_name
    /\ pre[req.id].total_keseluruhan > 0

\* the validation failures C4 names, on a create body
BadItems(o) ==
    /\ o.k = "val"
    /\ \E i \in 1..Len(o.v) :
        \/ \A n \in 1..Len(o.v[i].description) : o.v[i].description[n] = " "
        \/ o.v[i].amount < 0

BadCreate(body) ==
    \/ body.nomor_akhir.v < body.nomor_awal.v
    \/ BadItems(body.expenses)
    \/ BadItems(body.income)

\* ... and on a patch of an existing record: the range of the merged input
BadUpdate(row, patch) ==
    \/ /\ TouchesFinancial(patch)
       /\ patch.nomor_awal.k # "null" /\ patch.nomor_akhir.k # "null"
       /\ Overlay(patch, "nomor_akhir", row.nomor_akhir)
            < Overlay(patch, "nomor_awal", row.nomor_awal)
    \/ BadItems(patch.expenses)
    \/ BadItems(patch.income)

\* C4: a create or an update that fails validation (range of the submitted
\* or merged input, blank description, negative amount) is rejected and
\* leaves the table exactly as it was.
C4_NoPartialWrites ==
    /\ (Handled("create") /\ BadCreate(req.body)) =>
            (db = pre /\ resp.status \in {HTTP_400, HTTP_422})
    /\ (Handled("update") /\ req.id \in DOMAIN pre /\ BadUpdate(pre[req.id], req.patch)) =>
            (db = pre /\ resp.status \in {HTTP_400, HTTP_422})

C4_Witness ==
    /\ Handled("update")
    /\ req.id \in DOMAIN pre
    /\ PatchKeys(req.patch) = {"employee_name", "nomor_awal"}
    /\ req.patch.employee_name.v # pre[req.id].employee_name
    /\ req.patch.nomor_awal.k = "val"
    /\ req.patch.nomor_awal.v >= 0
    /\ req.patch.nomor_awal.v > pre[req.id].nomor_akhir
    /\ resp.status = HTTP_400
    /\ db = pre

\* a stored text that json.loads cannot decode
Undecodable(text) == text # << >> /\ ~json_loads(text).ok

RowUndecodable(row) == Undecodable(row.expenses_data) \/ Undecodable(row.income_data)

DisplayOnlyValues(patch) ==
    /\ PatchKeys(patch) # {}
    /\ PatchKeys(patch) \subseteq DisplayKeys
    /\ \A f \in PatchKeys(patch) : patch[f].k = "val"

\* C5: on every read path a stored line-item text that cannot be decoded is
\* exposed as an empty list, and the failure is not an error for the caller.
C5_DecodeFailureDegradesToEmpty ==
    /\ (Handled("get") /\ req.id \in DOMAIN pre /\ RowUndecodable(pre[req.id])) =>
            /\ resp.status = HTTP_200
            /\ Undecodable(pre[req.id].expenses_data) => resp.body.expenses = << >>
            /\ Undecodable(pre[req.id].income_data) => resp.body.income = << >>
    /\ (Handled("list") /\ \E id \in DOMAIN pre : RowUndecodable(pre[id])) =>
            resp.status = HTTP_200
    /\ (Handled("update") /\ req.id \in DOMAIN pre /\ RowUndecodable(pre[req.id])
            /\ DisplayOnlyValues(req.patch)) =>
            resp.status = HTTP_200

\* the validation rules of the financial inputs
FinanciallyValid(data) ==
    /\ data.nomor_awal >= 0
    /\ data.nomor_akhir >= data.nomor_awal
    /\ data.qris_setoran >= 0
    /\ \A list \in {data.expenses, data.income} :
        \A i \in 1..Len(list) :
            /\ \E n \in 1..Len(list[i].description) : list[i].description[n] # " "
            /\ list[i].amount >= 0

\* C7: whether a financial patch is accepted depends on the stored financial
\* inputs and the patch's financial fields only: a patch of financial fields
\* whose merged financial input is valid is accepted, whatever display
\* values the record holds.
C7_FinancialPatchAcceptedWhateverDisplay ==
    (/\ Handled("update")
     /\ req.id \in DOMAIN pre
     /\ PatchKeys(req.patch) # {}
     /\ PatchKeys(req.patch) \subseteq ClaimFinancialKeys
     /\ \A f \in PatchKeys(req.patch) : req.patch[f].k = "val"
     /\ FinanciallyValid(OverlaidInputs(pre[req.id], req.patch)))
        => resp.status = HTTP_200

\* the sum of the amounts at the positions in I
RECURSIVE SumAt(_, _)
SumAt(items, I) ==
    IF I = {} THEN 0
    ELSE LET i == CHOOSE i \in I : TRUE
         IN  items[i].amount + SumAt(items, I \ {i})

\* the items C9 counts: description not blank after trimming, amount > 0
CountedPositions(items) ==
    {i \in 1..Len(items) :
        /\ \E n \in 1..Len(items[i].description) : items[i].description[n] # " "
        /\ items[i].amount > 0}

FilteredSum(items) == SumAt(items, CountedPositions(items))

Reorderings(items) ==
    {[i \in 1..Len(items) |-> items[f[i]]] :
        f \in {g \in [1..Len(items) -> 1..Len(items)] :
                \A i, j \in 1..Len(items) : g[i] = g[j] => i = j}}

\* C8: for every input, also with nomor_akhir < nomor_awal or with
\* qris_setoran above the gross sale, calculate_setoran returns
\* total_liter = max(0, akhir - awal), total_setoran = total_liter * 11500,
\* cash_setoran = max(0, total_setoran - qris), the filtered sums, and
\* total_keseluruhan = cash + income - expenses without a floor.
C8_CalculateFormulas ==
    Handled("calculate") =>
        LET d == req.data
            r == resp.body
            liter == IF d.nomor_akhir - d.nomor_awal > 0 THEN d.nomor_akhir - d.nomor_awal ELSE 0
            gross == liter * 11500
            cash == IF gross - d.qris_setoran > 0 THEN gross - d.qris_setoran ELSE 0
        IN  /\ r.total_liter = liter
            /\ r.total_setoran = gross
            /\ r.cash_setoran = cash
            /\ r.total_expenses = FilteredSum(d.expenses)
            /\ r.total_income = FilteredSum(d.income)
            /\ r.total_keseluruhan = cash + FilteredSum(d.income) - FilteredSum(d.expenses)
            /\ r.total_liter >= 0
            /\ r.cash_setoran >= 0
            /\ d.qris_setoran <= r.total_setoran =>
                    r.cash_setoran = r.total_setoran - d.qris_setoran

C8_Witness ==
    /\ Handled("calculate")
    /\ req.data.nomor_akhir < req.data.nomor_awal
    /\ req.data.qris_setoran > 0
    /\ resp.body.total_liter = 0
    /\ resp.body.cash_setoran = 0
    /\ resp.body.total_keseluruhan < 0

C10_PreviewIsPure ==
    Handled("preview") =>
        /\ db = pre
        /\ resp.status \in {HTTP_200, HTTP_422}
        /\ resp.status = HTTP_200 =>
            resp.body = calculate_setoran(
                CalcData(req.body.nomor_awal.v, req.body.nomor_akhir.v,
                         req.body.qris_setoran.v, req.body.expenses.v, req.body.income.v))

C10_Witness ==
    /\ Handled("preview")
    /\ resp.status = HTTP_200
    /\ DOMAIN pre = {1}
    /\ db = pre
    /\ resp.body.total_keseluruhan > 0
    /\ resp.body.total_keseluruhan # pre[1].total_keseluruhan

\* the table after the two patches applied one after the other
Serial(d, first, second) ==
    update_result(update_result(d, 1, first).db, 1, second).db

AllDone == \A t \in Tasks : task[t].pc = "done"

\* C6: two concurrent updates of one record end, in every interleaving, with
\* the record that one of the two serial orders produces, and its derived
\* fields equal calculate_setoran of its stored inputs.
C6_ConcurrentUpdatesSerialize ==
    AllDone =>
        /\ \/ db = Serial(pre, task[1].patch, task[2].patch)
           \/ db = Serial(pre, task[2].patch, task[1].patch)
        /\ \A id \in DOMAIN db : Consistent(db[id])

C6_Witness ==
    /\ AllDone
    /\ \A t \in Tasks : task[t].status = HTTP_200
    /\ PatchKeys(task[1].patch) = {"nomor_akhir"}
    /\ PatchKeys(task[2].patch) = {"qris_setoran"}
    /\ db[1].nomor_akhir # pre[1].nomor_akhir
    /\ db[1].qris_setoran # pre[1].qris_setoran
    /\ db[1].cash_setoran # pre[1].cash_setoran

\* a PUT body that sets exactly one end of the meter range to a value
PatchesOneMeterEnd(patch) ==
    /\ PatchKeys(patch) \cap {"nomor_awal", "nomor_akhir"} # {}
    /\ {"nomor_awal", "nomor_akhir"} \ PatchKeys(patch) # {}
    /\ \A f \in PatchKeys(patch) \cap {"nomor_awal", "nomor_akhir"} : patch[f].k = "val"

MergedRangeReversed(row, patch) ==
    Overlay(patch, "nomor_akhir", row.nomor_akhir)
        < Overlay(patch, "nomor_awal", row.nomor_awal)

\* C11: whatever creates and updates were called, every stored record's
\* input fields satisfy the validation rules (nomor_awal >= 0, nomor_akhir >=
\* nomor_awal, qris_setoran >= 0, every stored item with a non-blank
\* description and amount >= 0); and an update that patches only one end of
\* the meter range is rejected, the table untouched, when the merged pair has
\* nomor_akhir < nomor_awal.
C11_StoredInputsValid ==
    /\ \A id \in DOMAIN db :
        /\ json_loads(db[id].expenses_data).ok
        /\ json_loads(db[id].income_data).ok
        /\ FinanciallyValid(StoredInputs(db[id]))
    /\ (/\ Handled("update")
        /\ req.id \in DOMAIN pre
        /\ PatchesOneMeterEnd(req.patch)
        /\ MergedRangeReversed(pre[req.id], req.patch))
            => (db = pre /\ resp.status \in {HTTP_400, HTTP_422})

C11_Witness ==
    /\ Handled("update")
    /\ req.id \in DOMAIN pre
    /\ PatchKeys(req.patch) = {"nomor_akhir"}
    /\ req.patch.nomor_akhir.k = "val"
    /\ req.patch.nomor_akhir.v >= 0
    /\ req.patch.nomor_akhir.v < pre[req.id].nomor_awal
    /\ Len(json_loads(pre[req.id].expenses_data).v) > 0
    /\ resp.status = HTTP_400
    /\ db = pre

============================================================================
